---- MODULE Spec2Model ----
(***************************************************************************)
(* State-machine model of the dependency-graph analytics of sbomViewer     *)
(* (src/src/components/InteractiveDependencyGraph.tsx) and of the state of  *)
(* the App component that loads the document (src/src/App.tsx).            *)
(*                                                                         *)
(* Units.  JavaScript numbers that are not integers are kept exact:        *)
(*   - criticality is held in TENTHS (criticality10 = 10 * criticality),   *)
(*   - link weights are held in TENTHS (weight10),                         *)
(*   - the results of divisions are Num records: a reduced fraction, or    *)
(*     one of the IEEE values NaN, Infinity, -Infinity.                    *)
(* Strings that the code inspects character by character (component       *)
(* names, the search term) are tuples of one-character strings.            *)
(***************************************************************************)
EXTENDS Integers, Sequences, FiniteSets, TLC

VARIABLES
  sbomData,             \* the sbomData prop: the parsed document
  rnd,                  \* the outcomes Math.random() yields during the build
  mounted,              \* FALSE until the first render has run the graph useMemo
  nodes,                \* useMemo result: nodes (Array.from(nodeMap.values()))
  links,                \* useMemo result: links (linkArray), mutated by d3.forceLink
  metrics,              \* useMemo result: metrics
  selectedNodes,        \* useState selectedNodes
  searchTerm,           \* useState searchTerm
  filterType,           \* useState filterType
  criticalityThreshold, \* useState criticalityThreshold
  depthLimit,           \* useState depthLimit
  showVulnerabilities,  \* useState showVulnerabilities
  showOrphans,          \* useState showOrphans
  pathAnalysis,         \* useState pathAnalysis
  bookmarkedNodes,      \* useState bookmarkedNodes
  isPlaying,            \* useState isPlaying
  currentTime,          \* useState currentTime
  app,                  \* the App component: its useState values and its file reads in flight
  ret,                  \* the value returned by the last direct call of a query function
  work                  \* number of steps each traversal of the last operation took

docVars    == <<sbomData, rnd>>
graphVars  == <<mounted, nodes, links, metrics>>
filterVars == <<searchTerm, filterType, criticalityThreshold, depthLimit,
                showVulnerabilities, showOrphans>>
queryVars  == <<selectedNodes, pathAnalysis, bookmarkedNodes>>
playVars   == <<isPlaying, currentTime>>
appVars    == <<app>>
ghostVars  == <<ret, work>>
vars       == <<docVars, appVars, playVars, graphVars, filterVars, queryVars, ghostVars>>

(***************************************************************************)
(* Bounds of the model.                                                    *)
(***************************************************************************)
MaxComponents == 3   \* longest component list of the generated documents
MaxLinks      == 3   \* most dependsOn references of a generated document
Fuel          == 32  \* steps after which a traversal is declared not to terminate

\* The bom-refs of the generated documents, in a fixed order.
RefList == <<"a", "b", "c">>
Refs    == {RefList[i] : i \in 1..Len(RefList)}
RefPos(r) == CHOOSE i \in 1..Len(RefList) : RefList[i] = r

(***************************************************************************)
(* Generic helpers.                                                        *)
(***************************************************************************)
Max(x, y) == IF x >= y THEN x ELSE y
Min(x, y) == IF x <= y THEN x ELSE y
Range(s)  == {s[i] : i \in 1..Len(s)}
SeqsUpTo(S, n) == UNION {[1..k -> S] : k \in 0..n}
Cyc(s, i) == s[((i - 1) % Len(s)) + 1]

RECURSIVE SumSeq(_)
SumSeq(s) == IF s = <<>> THEN 0 ELSE Head(s) + SumSeq(Tail(s))

RECURSIVE MaxSeq(_)
MaxSeq(s) == IF Len(s) = 1 THEN s[1] ELSE Max(Head(s), MaxSeq(Tail(s)))

RECURSIVE Gcd(_, _)
Gcd(x, y) == IF y = 0 THEN x ELSE Gcd(y, x % y)

(***************************************************************************)
(* JavaScript numbers produced by a division.                              *)
(***************************************************************************)
NaN         == [k |-> "NaN", n |-> 0, d |-> 0]
Infinity    == [k |-> "Infinity", n |-> 1, d |-> 0]
NegInfinity == [k |-> "-Infinity", n |-> 0 - 1, d |-> 0]
\* the finite number n/d, d > 0, n >= 0, reduced
Frac(n, d)  == LET g == Gcd(n, d) IN [k |-> "num", n |-> n \div g, d |-> d \div g]
Zero        == Frac(0, 1)
IsFinite(x) == x.k = "num"
\* a / b for integers a >= 0 and b >= 0 (b = 0 covers +0 and -0: the
\* numerators of the code are never negative, and 0/-0 is NaN like 0/0)
JsDiv(a, b) ==
  IF b = 0 THEN (IF a = 0 THEN NaN ELSE Infinity) ELSE Frac(a, b)
\* Math.max(...xs) of a list of integers: -Infinity on the empty list
JsMax(xs) == IF xs = <<>> THEN NegInfinity ELSE Frac(MaxSeq(xs), 1)

(***************************************************************************)
(* Strings as tuples of characters: toLowerCase and includes.              *)
(***************************************************************************)
LowerChar(c) ==
  CASE c = "A" -> "a" [] c = "B" -> "b" [] c = "C" -> "c" [] c = "P" -> "p"
    [] OTHER -> c
toLowerCase(s) == [i \in 1..Len(s) |-> LowerChar(s[i])]
includes(s, t) ==
  \E i \in 0..(Len(s) - Len(t)) : \A j \in 1..Len(t) : s[i + j] = t[j]

(***************************************************************************)
(* Documents.  A component is [ref, name, type]; a dependency entry is     *)
(* [ref, dependsOn]; the optional dependencies field is                    *)
(* [present, list].                                                        *)
(***************************************************************************)
TypeList == <<"library", "application", "framework">>

\* component lists are taken up to renaming of the bom-refs: the code only
\* compares ids for equality, so the first occurrences appear in RefList order
Canonical(rs) ==
  \A i \in 1..Len(rs) :
    RefPos(rs[i]) <= 1 + Cardinality({RefPos(rs[j]) : j \in 1..(i - 1)})

RefSeqs == {rs \in SeqsUpTo(Refs, MaxComponents) : Canonical(rs)}

\* the i-th component: its type and the case of its name vary with the position,
\* so a repeated bom-ref carries different data at each occurrence
ComponentAt(rs, i) ==
  [ref  |-> rs[i],
   name |-> IF i % 2 = 1 THEN <<"P", rs[i]>> ELSE <<rs[i]>>,
   type |-> Cyc(TypeList, i)]

ComponentsOf(rs) == [i \in 1..Len(rs) |-> ComponentAt(rs, i)]

\* a list of (ref, target) pairs as dependency entries: consecutive pairs with
\* the same ref share one entry
RECURSIVE GroupDeps(_)
GroupDeps(ps) ==
  IF ps = <<>> THEN <<>>
  ELSE LET rest == GroupDeps(Tail(ps))
           p    == Head(ps)
       IN IF rest # <<>> /\ rest[1].ref = p[1]
          THEN <<[ref |-> p[1], dependsOn |-> <<p[2]>> \o rest[1].dependsOn]>>
               \o Tail(rest)
          ELSE <<[ref |-> p[1], dependsOn |-> <<p[2]>>]>> \o rest

PairSeqs == SeqsUpTo(Refs \X Refs, MaxLinks)

Doc(components, deps) ==
  [components |-> components, dependencies |-> [present |-> TRUE, list |-> deps]]

StructDocs == {Doc(ComponentsOf(rs), GroupDeps(ps)) : rs \in RefSeqs, ps \in PairSeqs}

\* the stream of Math.random() outcomes of one build, read cyclically:
\* vuln = Math.floor(Math.random() * 5), pop and trust = Math.random() * 100
\* (whole percents), weight10 = 10 * (Math.random() * 2 + 0.5)
StructRnd ==
  [vuln |-> <<0, 4, 2>>, pop |-> <<0, 99, 50>>, trust |-> <<99, 0, 50>>,
   weight10 |-> <<5, 24, 10>>]

(***************************************************************************)
(* The graph useMemo, lines 92-211.                                        *)
(***************************************************************************)
\* risk classification of a node, line 116
RiskOf(vulnerabilityCount) ==
  IF vulnerabilityCount > 3 THEN "high"
  ELSE IF vulnerabilityCount > 1 THEN "medium" ELSE "low"

NoCluster == 0 - 1   \* Node.cluster left undefined

\* the Node object of the index-th component, lines 100-124
NewNode(component, r, index) ==
  [id              |-> component.ref,
   name            |-> component.name,
   type            |-> component.type,
   vulnerabilities |-> Cyc(r.vuln, index),
   dependencyCount |-> 0,
   criticality10   |-> 0,
   depth           |-> 0,
   cluster         |-> NoCluster,
   risk            |-> RiskOf(Cyc(r.vuln, index)),
   popularity      |-> Cyc(r.pop, index),
   trustScore      |-> Cyc(r.trust, index)]

\* position of id among the keys of nodeMap, 0 when absent (nodeMap.get)
NodeIndex(nodeMap, id) ==
  IF \E k \in 1..Len(nodeMap) : nodeMap[k].id = id
  THEN CHOOSE k \in 1..Len(nodeMap) : nodeMap[k].id = id
  ELSE 0

\* a nodeMap that keeps every component, a repeated bom-ref included
MapAppend(nodeMap, node) == Append(nodeMap, node)

\* nodeMap.set(node.id, node): a Map keeps the position of a key it already
\* holds and replaces its value
MapSet(nodeMap, node) ==
  LET k == NodeIndex(nodeMap, node.id)
  IN IF k = 0 THEN Append(nodeMap, node) ELSE [nodeMap EXCEPT ![k] = node]

\* sbomData.components.forEach(...), lines 100-143
RECURSIVE CreateNodes(_, _, _, _)
CreateNodes(components, r, index, nodeMap) ==
  IF index > Len(components) THEN nodeMap
  ELSE CreateNodes(components, r, index + 1,
                   MapSet(nodeMap, NewNode(components[index], r, index)))

\* one end of a link: the id string as the build stores it (obj = FALSE), or the
\* Node object d3.forceLink replaces it with (obj = TRUE)
StringEnd(id) == [obj |-> FALSE, id |-> id]
NodeEnd(id)   == [obj |-> TRUE, id |-> id]

LinkRisk(sourceRisk, targetRisk) ==
  IF sourceRisk = "high" \/ targetRisk = "high" THEN "high"
  ELSE IF sourceRisk = "medium" \/ targetRisk = "medium" THEN "medium" ELSE "low"

\* the body of dep.dependsOn.forEach for one targetRef, lines 150-163;
\* st = [nodeMap, linkArray]
AddLinkOnce(st, r, ref, targetRef) ==
  LET s == NodeIndex(st.nodeMap, ref)
      t == NodeIndex(st.nodeMap, targetRef)
  IN IF t = 0 THEN st
     ELSE LET m1 == [st.nodeMap EXCEPT ![s].dependencyCount = @ + 1]
              m2 == [m1 EXCEPT ![t].depth = Max(@, m1[s].depth + 1)]
          IN [nodeMap   |-> m2,
              linkArray |->
                IF \E k \in 1..Len(st.linkArray) :
                     st.linkArray[k].source.id = ref /\ st.linkArray[k].target.id = targetRef
                THEN st.linkArray
                ELSE Append(st.linkArray,
                       [source   |-> StringEnd(ref),
                        target   |-> StringEnd(targetRef),
                        weight10 |-> Cyc(r.weight10, Len(st.linkArray) + 1),
                        risk     |-> LinkRisk(m2[s].risk, m2[t].risk)])]

AddLink(st, r, ref, targetRef) ==
  LET s == NodeIndex(st.nodeMap, ref)
      t == NodeIndex(st.nodeMap, targetRef)
  IN IF t = 0 THEN st
     ELSE LET m1 == [st.nodeMap EXCEPT ![s].dependencyCount = @ + 1]
              m2 == [m1 EXCEPT ![t].depth = Max(@, m1[s].depth + 1)]
          IN [nodeMap   |-> m2,
              linkArray |-> Append(st.linkArray,
                              [source   |-> StringEnd(ref),
                               target   |-> StringEnd(targetRef),
                               weight10 |-> Cyc(r.weight10, Len(st.linkArray) + 1),
                               risk     |-> LinkRisk(m2[s].risk, m2[t].risk)])]

\* dep.dependsOn.forEach(...), lines 149-164
RECURSIVE AddTargets(_, _, _, _, _)
AddTargets(st, r, ref, dependsOn, j) ==
  IF j > Len(dependsOn) THEN st
  ELSE AddTargets(AddLink(st, r, ref, dependsOn[j]), r, ref, dependsOn, j + 1)

\* sbomData.dependencies?.forEach(...), lines 146-166
RECURSIVE CreateLinks(_, _, _, _)
CreateLinks(st, r, deps, i) ==
  IF i > Len(deps) THEN st
  ELSE IF NodeIndex(st.nodeMap, deps[i].ref) = 0
       THEN CreateLinks(st, r, deps, i + 1)
       ELSE CreateLinks(AddTargets(st, r, deps[i].ref, deps[i].dependsOn, 1),
                        r, deps, i + 1)

\* sbomData.dependencies?. : an absent field is skipped
DependenciesOf(doc) ==
  IF doc.dependencies.present THEN doc.dependencies.list ELSE <<>>

\* the criticality score in tenths, lines 170-173:
\* dependencyCount * 0.4 + vulnerabilities * 0.3 + popularity * 0.2
\*   + (100 - trustScore) * 0.1
Criticality10Unscaled(node) ==
  (node.dependencyCount * 4) + (node.vulnerabilities * 3)
    + (node.popularity * 20) + ((100 - node.trustScore) * 1)

\* a criticality score that leaves the vulnerability count out
Criticality10NoVulnerabilities(node) ==
  (node.dependencyCount * 4) + (node.popularity * 2) + ((100 - node.trustScore) * 1)

Criticality10(node) ==
  (node.dependencyCount * 4) + (node.vulnerabilities * 3)
    + (node.popularity * 2) + ((100 - node.trustScore) * 1)

\* nodeMap.forEach(node => node.criticality = ...), lines 169-174
SetCriticality(nodeMap) ==
  [k \in 1..Len(nodeMap) |->
     [nodeMap[k] EXCEPT !.criticality10 = Criticality10(nodeMap[k])]]

(***************************************************************************)
(* What the code reads from a link end.                                    *)
(***************************************************************************)
Undefined == "<undefined>"
ObjectKey == "<object>"
Truthy(str) == str # Undefined /\ str # ""
\* (end as any).id
IdProp(end) == IF end.obj THEN end.id ELSE Undefined
\* (end as any).id || end
IdOrSelf(end) ==
  IF Truthy(IdProp(end)) THEN IdProp(end)
  ELSE IF end.obj THEN ObjectKey ELSE end.id

(***************************************************************************)
(* detectCommunities, lines 663-699.                                       *)
(***************************************************************************)
\* links.forEach(...) of one visited node, lines 679-688: what it pushes
RECURSIVE PushNeighbours(_, _, _, _, _)
PushNeighbours(ls, current, visited, stack, i) ==
  IF i > Len(ls) THEN stack
  ELSE LET sourceId == IdOrSelf(ls[i].source)
           targetId == IdOrSelf(ls[i].target)
       IN PushNeighbours(ls, current, visited,
            IF sourceId = current /\ targetId \notin visited
            THEN Append(stack, targetId)
            ELSE IF targetId = current /\ sourceId \notin visited
                 THEN Append(stack, sourceId)
                 ELSE stack,
            i + 1)

\* the while loop, lines 673-690; w = [stack, visited, community, steps]
RECURSIVE CommunityWalk(_, _)
CommunityWalk(ls, w) ==
  IF w.stack = <<>> \/ w.steps >= Fuel THEN w
  ELSE LET current == w.stack[Len(w.stack)]
           rest    == SubSeq(w.stack, 1, Len(w.stack) - 1)
       IN IF current \notin w.visited
          THEN CommunityWalk(ls,
                 [stack     |-> PushNeighbours(ls, current, w.visited \cup {current}, rest, 1),
                  visited   |-> w.visited \cup {current},
                  community |-> Append(w.community, current),
                  steps     |-> w.steps + 1])
          ELSE CommunityWalk(ls, [w EXCEPT !.stack = rest, !.steps = @ + 1])

\* which communities are kept, line 692
KeepsCommunity(community) == Len(community) > 1

\* nodes.forEach(...), lines 668-696; acc = [visited, communities, steps, complete]
RECURSIVE CommunityLoop(_, _, _, _)
CommunityLoop(ns, ls, k, acc) ==
  IF k > Len(ns) THEN acc
  ELSE IF ns[k].id \in acc.visited THEN CommunityLoop(ns, ls, k + 1, acc)
  ELSE LET w == CommunityWalk(ls, [stack |-> <<ns[k].id>>, visited |-> acc.visited,
                                   community |-> <<>>, steps |-> acc.steps])
       IN CommunityLoop(ns, ls, k + 1,
            [visited     |-> w.visited,
             communities |-> IF KeepsCommunity(w.community)
                             THEN Append(acc.communities, w.community)
                             ELSE acc.communities,
             steps       |-> w.steps,
             complete    |-> acc.complete /\ w.stack = <<>>])

detectCommunitiesRun(ns, ls) ==
  CommunityLoop(ns, ls, 1,
    [visited |-> {}, communities |-> <<>>, steps |-> 0, complete |-> TRUE])

detectCommunities(ns, ls) == detectCommunitiesRun(ns, ls).communities

\* clusters.forEach((cluster, index) => ... node.cluster = index), lines 178-183
AssignClusters(nodeMap, clusters) ==
  [k \in 1..Len(nodeMap) |->
     LET hit == {c \in 1..Len(clusters) : nodeMap[k].id \in Range(clusters[c])}
     IN IF hit = {} THEN nodeMap[k]
        ELSE [nodeMap[k] EXCEPT !.cluster =
                (CHOOSE c \in hit : \A c2 \in hit : c2 <= c) - 1]]

(***************************************************************************)
(* detectCircularDependencies, lines 701-743.                              *)
(***************************************************************************)
\* the adjacency Map of lines 703-711 (and 889-897), in insertion order:
\* a sequence of [node, neighbors]
GraphIndex(graph, id) ==
  IF \E k \in 1..Len(graph) : graph[k].node = id
  THEN CHOOSE k \in 1..Len(graph) : graph[k].node = id
  ELSE 0

RECURSIVE BuildAdjacency(_, _, _)
BuildAdjacency(ls, i, graph) ==
  IF i > Len(ls) THEN graph
  ELSE LET sourceId == IdOrSelf(ls[i].source)
           targetId == IdOrSelf(ls[i].target)
           k        == GraphIndex(graph, sourceId)
       IN BuildAdjacency(ls, i + 1,
            IF k = 0
            THEN Append(graph, [node |-> sourceId, neighbors |-> <<targetId>>])
            ELSE [graph EXCEPT ![k].neighbors = Append(@, targetId)])

Adjacency(ls) == BuildAdjacency(ls, 1, <<>>)

\* graph.get(node) || []
NeighborsOf(graph, id) ==
  IF GraphIndex(graph, id) = 0 THEN <<>> ELSE graph[GraphIndex(graph, id)].neighbors

\* a hasCycle that forgets recursionStack.delete(node)
LeaveNodeKeepingStack(st, node) == [st EXCEPT !.ret = FALSE]

\* recursionStack.delete(node) when no neighbor closed a cycle, line 732
LeaveNode(st, node) == [st EXCEPT !.recursionStack = @ \ {node}, !.ret = FALSE]

\* hasCycle(node), lines 717-734;
\* st = [visited, recursionStack, cycles, calls, ret, complete]
RECURSIVE hasCycle(_, _, _)
RECURSIVE VisitNeighbors(_, _, _, _)
hasCycle(graph, node, st) ==
  IF st.calls >= Fuel THEN [st EXCEPT !.ret = TRUE, !.complete = FALSE]
  ELSE LET s0 == [st EXCEPT !.calls = @ + 1]
       IN IF node \in s0.recursionStack
          THEN [s0 EXCEPT !.cycles = @ + 1, !.ret = TRUE]
          ELSE IF node \in s0.visited THEN [s0 EXCEPT !.ret = FALSE]
          ELSE LET s1 == [s0 EXCEPT !.visited = @ \cup {node},
                                    !.recursionStack = @ \cup {node}]
                   s2 == VisitNeighbors(graph, NeighborsOf(graph, node), 1, s1)
               IN IF s2.ret THEN s2 ELSE LeaveNode(s2, node)

\* for (const neighbor of neighbors) if (hasCycle(neighbor)) return true
VisitNeighbors(graph, neighbors, i, st) ==
  IF i > Len(neighbors) THEN [st EXCEPT !.ret = FALSE]
  ELSE LET s == hasCycle(graph, neighbors[i], st)
       IN IF s.ret THEN s ELSE VisitNeighbors(graph, neighbors, i + 1, s)

\* graph.forEach((_, node) => { if (!visited.has(node)) hasCycle(node) })
RECURSIVE CycleLoop(_, _, _)
CycleLoop(graph, k, st) ==
  IF k > Len(graph) THEN st
  ELSE IF graph[k].node \in st.visited THEN CycleLoop(graph, k + 1, st)
       ELSE CycleLoop(graph, k + 1, hasCycle(graph, graph[k].node, st))

detectCircularDependenciesRun(ls) ==
  CycleLoop(Adjacency(ls), 1,
    [visited |-> {}, recursionStack |-> {}, cycles |-> 0, calls |-> 0,
     ret |-> FALSE, complete |-> TRUE])

detectCircularDependencies(ls) == detectCircularDependenciesRun(ls).cycles

(***************************************************************************)
(* calculateCentralityScore and calculateModularityScore, lines 745-781.   *)
(***************************************************************************)
\* the centrality of one node in tenths, lines 748-754
NodeCentrality10(node, ls) ==
  SumSeq([i \in 1..Len(ls) |->
            IF IdProp(ls[i].source) = node.id \/ IdProp(ls[i].target) = node.id
            THEN ls[i].weight10 ELSE 0])

calculateCentralityScore(ns, ls) ==
  JsDiv(SumSeq([k \in 1..Len(ns) |-> NodeCentrality10(ns[k], ls)]), 10 * Len(ns))

\* d.cluster || 0
ClusterOrZero(node) == IF node.cluster = NoCluster THEN 0 ELSE node.cluster

\* (end as any).cluster: undefined on an id string (NoCluster stands for undefined)
EndCluster(ns, end) ==
  IF end.obj /\ NodeIndex(ns, end.id) # 0 THEN ns[NodeIndex(ns, end.id)].cluster
  ELSE NoCluster

\* lines 770-774: the links whose two ends read the same cluster
InternalEdges(ns, ls) ==
  Cardinality({i \in 1..Len(ls) :
                 EndCluster(ns, ls[i].source) = EndCluster(ns, ls[i].target)})

\* the sum of line 777 over the groups of d3.group(nodes, d => d.cluster || 0),
\* as the numerator over the common denominator 4 * totalEdges^2
ModularityNumerator(ns, ls) ==
  LET totalEdges == Len(ls)
      keys       == {ClusterOrZero(ns[k]) : k \in 1..Len(ns)}
      size(c)    == Cardinality({k \in 1..Len(ns) : ClusterOrZero(ns[k]) = c})
      term(c)    == (4 * totalEdges * InternalEdges(ns, ls))
                      - ((size(c) * (size(c) - 1)) * (size(c) * (size(c) - 1)))
      keySeq     == CHOOSE q \in [1..Cardinality(keys) -> keys] : Range(q) = keys
  IN SumSeq([j \in 1..Len(keySeq) |-> term(keySeq[j])])

calculateModularityScore(ns, ls) ==
  LET totalEdges == Len(ls)
      num        == ModularityNumerator(ns, ls)
      den        == 4 * totalEdges * totalEdges
  IN IF totalEdges = 0 THEN Zero
     ELSE IF num <= 0 THEN Zero
     ELSE IF num >= den THEN Frac(100, 1)
     ELSE Frac(100 * num, den)

(***************************************************************************)
(* The metrics of lines 185-203 and the whole useMemo.                     *)
(***************************************************************************)
\* an orphan test that looks at the outgoing links only
HasNoDependency(node, ls) == node.dependencyCount = 0

\* lines 187-188
IsOrphan(node, ls) ==
  node.dependencyCount = 0
    /\ ~ \E i \in 1..Len(ls) : ls[i].target = StringEnd(node.id)


\* networkDensity, line 200
NetworkDensity(n, e) == JsDiv(e * 2, n * (n - 1))

\* avgDependencies, line 193
AvgDependencies(ns) ==
  JsDiv(SumSeq([k \in 1..Len(ns) |-> ns[k].dependencyCount]), Len(ns))

GraphMetrics(nodesArray, linkArray, clusters, cyclesRun) ==
  [totalNodes         |-> Len(nodesArray),
   totalEdges         |-> Len(linkArray),
   avgDependencies    |-> AvgDependencies(nodesArray),
   maxDepth           |-> JsMax([k \in 1..Len(nodesArray) |-> nodesArray[k].depth]),
   circularDeps       |-> cyclesRun.cycles,
   vulnerableNodes    |-> Len(SelectSeq(nodesArray, LAMBDA n : n.vulnerabilities > 0)),
   criticalComponents |-> Len(SelectSeq(nodesArray, LAMBDA n : n.criticality10 > 500)),
   orphanNodes        |-> Len(SelectSeq(nodesArray, LAMBDA n : IsOrphan(n, linkArray))),
   clusterCount       |-> Len(clusters),
   networkDensity     |-> NetworkDensity(Len(nodesArray), Len(linkArray)),
   centralityScore    |-> calculateCentralityScore(nodesArray, linkArray),
   modularityScore    |-> calculateModularityScore(nodesArray, linkArray)]

\* the useMemo of lines 92-211 on a document with components
ProcessSbom(doc, r) ==
  LET created    == CreateNodes(doc.components, r, 1, <<>>)
      linked     == CreateLinks([nodeMap |-> created, linkArray |-> <<>>], r,
                                DependenciesOf(doc), 1)
      scored     == SetCriticality(linked.nodeMap)
      commRun    == detectCommunitiesRun(scored, linked.linkArray)
      nodesArray == AssignClusters(scored, commRun.communities)
      cyclesRun  == detectCircularDependenciesRun(linked.linkArray)
  IN [nodes    |-> nodesArray,
      links    |-> linked.linkArray,
      clusters |-> commRun.communities,
      metrics  |-> GraphMetrics(nodesArray, linked.linkArray, commRun.communities, cyclesRun),
      work     |-> [depth       |-> Len(linked.linkArray),
                    communities |-> commRun.steps,
                    cycles      |-> cyclesRun.calls,
                    complete    |-> commRun.complete /\ cyclesRun.complete]]

(***************************************************************************)
(* filteredData, lines 214-234.                                            *)
(***************************************************************************)
FilterState ==
  [searchTerm |-> searchTerm, filterType |-> filterType,
   criticalityThreshold |-> criticalityThreshold, depthLimit |-> depthLimit,
   showVulnerabilities |-> showVulnerabilities, showOrphans |-> showOrphans]

\* the predicate of nodes.filter, lines 215-225
MatchesFilters(node, f) ==
  LET matchesSearch        == includes(toLowerCase(node.name), toLowerCase(f.searchTerm))
      matchesType          == f.filterType = "all" \/ node.type = f.filterType
      matchesCriticality   == node.criticality10 >= 10 * f.criticalityThreshold
      matchesDepth         == node.depth <= f.depthLimit
      matchesVulnerability == f.showVulnerabilities \/ node.vulnerabilities = 0
      matchesOrphan        == f.showOrphans \/ node.dependencyCount > 0
  IN matchesSearch /\ matchesType /\ matchesCriticality /\ matchesDepth
       /\ matchesVulnerability /\ matchesOrphan

\* a links.filter that looks at the source only
LinkVisibleBySource(link, nodeIds) == IdOrSelf(link.source) \in nodeIds

\* the predicate of links.filter, lines 228-231
LinkVisible(link, nodeIds) ==
  IdOrSelf(link.source) \in nodeIds /\ IdOrSelf(link.target) \in nodeIds

\* a filteredData that recomputes dependencyCount among the visible links
filteredDataRecounted(ns, ls, f) ==
  LET filteredNodes == SelectSeq(ns, LAMBDA n : MatchesFilters(n, f))
      nodeIds       == {filteredNodes[k].id : k \in 1..Len(filteredNodes)}
      filteredLinks == SelectSeq(ls, LAMBDA l : LinkVisible(l, nodeIds))
  IN [nodes |-> [k \in 1..Len(filteredNodes) |->
                   [filteredNodes[k] EXCEPT !.dependencyCount =
                      Cardinality({i \in 1..Len(filteredLinks) :
                                     filteredLinks[i].source.id = filteredNodes[k].id})]],
      links |-> filteredLinks]

filteredDataOf(ns, ls, f) ==
  LET filteredNodes == SelectSeq(ns, LAMBDA n : MatchesFilters(n, f))
      nodeIds       == {filteredNodes[k].id : k \in 1..Len(filteredNodes)}
  IN [nodes |-> filteredNodes,
      links |-> SelectSeq(ls, LAMBDA l : LinkVisible(l, nodeIds))]

filteredData == filteredDataOf(nodes, links, FilterState)

(***************************************************************************)
(* findShortestPaths, lines 887-922.                                       *)
(***************************************************************************)
MaxPaths   == 3   \* while (... && paths.length < 3)
MaxPathLen == 5   \* if (... && path.length < 5)

\* a findShortestPaths without the bound on the length of a path
MayExtendAnyLength(neighbor, visited, path) == neighbor \notin visited

\* a findShortestPaths whose paths stop one node earlier
MayExtendBelowFour(neighbor, visited, path) ==
  neighbor \notin visited /\ Len(path) < 4

\* a findShortestPaths that lets a node be reached along several paths
MayExtendRevisiting(neighbor, visited, path) ==
  neighbor \notin Range(path) /\ Len(path) < MaxPathLen

\* the test of line 914
MayExtend(neighbor, visited, path) ==
  neighbor \notin visited /\ Len(path) < MaxPathLen

\* neighbors.forEach(...), lines 913-918; q = [queue, visited]
RECURSIVE Enqueue(_, _, _, _)
Enqueue(neighbors, j, path, q) ==
  IF j > Len(neighbors) THEN q
  ELSE Enqueue(neighbors, j + 1, path,
         IF MayExtend(neighbors[j], q.visited, path)
         THEN [queue   |-> Append(q.queue, Append(path, neighbors[j])),
               visited |-> q.visited \cup {neighbors[j]}]
         ELSE q)

\* the while loop, lines 903-919; b = [queue, visited, paths, steps]
RECURSIVE PathLoop(_, _, _)
PathLoop(graph, toId, b) ==
  IF ~(Len(b.queue) > 0 /\ Len(b.paths) < MaxPaths) \/ b.steps >= Fuel THEN b
  ELSE LET path    == Head(b.queue)
           current == path[Len(path)]
       IN IF current = toId
          THEN PathLoop(graph, toId,
                 [b EXCEPT !.queue = Tail(@), !.paths = Append(@, path), !.steps = @ + 1])
          ELSE LET q == Enqueue(NeighborsOf(graph, current), 1, path,
                                [queue |-> Tail(b.queue), visited |-> b.visited])
               IN PathLoop(graph, toId,
                    [queue |-> q.queue, visited |-> q.visited,
                     paths |-> b.paths, steps |-> b.steps + 1])

findShortestPathsRun(ls, fromId, toId) ==
  LET b == PathLoop(Adjacency(ls), toId,
                    [queue |-> <<(<<fromId>>)>>, visited |-> {fromId},
                     paths |-> <<>>, steps |-> 0])
  IN [paths    |-> b.paths,
      steps    |-> b.steps,
      complete |-> ~(Len(b.queue) > 0 /\ Len(b.paths) < MaxPaths)]

findShortestPaths(ls, fromId, toId) == findShortestPathsRun(ls, fromId, toId).paths

(***************************************************************************)
(* showImpactAnalysis, lines 924-944.                                      *)
(***************************************************************************)
\* a findImpacted without the guard on impactedComponents
IsDependent(sourceId, targetId, id, impactedComponents) ==
  targetId = id

\* the test of line 933
IsNewDependent(sourceId, targetId, id, impactedComponents) ==
  targetId = id /\ sourceId \notin impactedComponents

\* findImpacted(id), lines 928-938; st = [impacted, calls, complete]
RECURSIVE findImpacted(_, _, _)
RECURSIVE ImpactLoop(_, _, _, _)
findImpacted(ls, id, st) ==
  IF st.calls >= Fuel THEN [st EXCEPT !.complete = FALSE]
  ELSE ImpactLoop(ls, id, 1, [st EXCEPT !.calls = @ + 1])

\* a findImpacted that stops at the direct dependents
NoDescent(ls, sourceId, st) == st

\* a findImpacted that follows a dependent only when it has a single dependency
DescendIfSoleDependency(ls, sourceId, st) ==
  IF Cardinality({i \in 1..Len(ls) : IdOrSelf(ls[i].source) = sourceId}) > 1
  THEN st
  ELSE findImpacted(ls, sourceId, st)

\* the recursive call findImpacted(sourceId), line 935
Descend(ls, sourceId, st) == findImpacted(ls, sourceId, st)

ImpactLoop(ls, id, i, st) ==
  IF i > Len(ls) \/ ~st.complete THEN st
  ELSE LET sourceId == IdOrSelf(ls[i].source)
           targetId == IdOrSelf(ls[i].target)
       IN IF IsNewDependent(sourceId, targetId, id, st.impacted)
          THEN ImpactLoop(ls, id, i + 1,
                 Descend(ls, sourceId, [st EXCEPT !.impacted = @ \cup {sourceId}]))
          ELSE ImpactLoop(ls, id, i + 1, st)

ImpactRun(ls, nodeId) ==
  findImpacted(ls, nodeId, [impacted |-> {}, calls |-> 0, complete |-> TRUE])

\* new Set([nodeId, ...impactedComponents]), line 943
ImpactSelection(ls, nodeId) == {nodeId} \cup ImpactRun(ls, nodeId).impacted

(***************************************************************************)
(* Reference notions the claims are stated with, defined on the set of     *)
(* (source, target) pairs of the links and independent of the traversals   *)
(* above.                                                                  *)
(***************************************************************************)
PairsOf(ls) == {<<ls[i].source.id, ls[i].target.id>> : i \in 1..Len(ls)}

RECURSIVE Closure(_, _)
Closure(E, S) ==
  LET T == S \cup {e[2] : e \in {x \in E : x[1] \in S}}
  IN IF T = S THEN S ELSE Closure(E, T)

\* the nodes reached from n along one link or more
Descendants(E, n) == Closure(E, {e[2] : e \in {x \in E : x[1] = n}})
\* the nodes from which n is reached along one link or more
Ancestors(E, n) == {e[1] : e \in {x \in E : n \in {x[2]} \cup Descendants(E, x[2])}}
HasDirectedCycle(E) == \E e \in E : e[1] \in Descendants(E, e[1])

(***************************************************************************)
(* Initial states.                                                         *)
(***************************************************************************)
NoMetrics == [totalNodes |-> 0]
NoWork    == [op |-> "none"]
NoResult  == [fn |-> "none"]

\* null, and a value that is not null
Null == <<>>
Some(x) == <<x>>

\* the useState initial values of App, lines 14-18; no file has been chosen
AppInitial ==
  [sbomData          |-> Null,
   selectedComponent |-> Null,
   activeTab         |-> "overview",
   searchTerm        |-> <<>>,
   filterType        |-> "all",
   reads             |-> {},
   chosen            |-> <<>>,
   completed         |-> <<>>,
   alerts            |-> 0]

\* the state of the component when it is constructed on document doc
InitOn(doc, r) ==
  /\ sbomData = doc
  /\ app = AppInitial
  /\ isPlaying = FALSE
  /\ currentTime = 0
  /\ rnd = r
  /\ mounted = FALSE
  /\ nodes = <<>>
  /\ links = <<>>
  /\ metrics = NoMetrics
  /\ selectedNodes = {}
  /\ searchTerm = <<>>
  /\ filterType = "all"
  /\ criticalityThreshold = 0
  /\ depthLimit = 10
  /\ showVulnerabilities = TRUE
  /\ showOrphans = TRUE
  /\ pathAnalysis = [from |-> Undefined, to |-> Undefined, paths |-> Undefined]
  /\ bookmarkedNodes = {}
  /\ ret = NoResult
  /\ work = NoWork

\* documents of the scenarios the specification names, and chains long enough
\* for the hop bound of findShortestPaths to matter
ScenarioComponents(ids) ==
  [i \in 1..Len(ids) |-> [ref |-> ids[i], name |-> <<"P", ids[i]>>, type |-> Cyc(TypeList, i)]]

Dep(ref, dependsOn) == [ref |-> ref, dependsOn |-> dependsOn]

Diamond ==
  Doc(ScenarioComponents(<<"a", "b", "c", "d">>),
      <<Dep("a", <<"b", "c">>), Dep("b", <<"d">>), Dep("c", <<"d">>)>>)

FiveIsolated == Doc(ScenarioComponents(<<"a", "b", "c", "d", "e">>), <<>>)

Chain(ids) ==
  Doc(ScenarioComponents(ids),
      [i \in 1..(Len(ids) - 1) |-> Dep(ids[i], <<ids[i + 1]>>)])

\* a chain with a shortcut from its head to its last node but one
ChainWithShortcut(ids) ==
  Doc(ScenarioComponents(ids),
      [i \in 1..(Len(ids) - 1) |->
         Dep(ids[i], IF i = 1 THEN <<ids[2], ids[Len(ids) - 1]>> ELSE <<ids[i + 1]>>)])

Ring(ids) ==
  Doc(ScenarioComponents(ids),
      [i \in 1..Len(ids) |-> Dep(ids[i], <<ids[(i % Len(ids)) + 1]>>)])

ScenarioDocs ==
  {Diamond, FiveIsolated,
   Chain(<<"a", "b", "c", "d", "e">>),
   Chain(<<"a", "b", "c", "d", "e", "f">>),
   Chain(<<"a", "b", "c", "d", "e", "f", "g">>),
   ChainWithShortcut(<<"a", "b", "c", "d", "e", "f">>),
   Ring(<<"a", "b", "c", "d">>)}

\* documents with components and no dependencies field
NoDependenciesDocs ==
  {[components |-> ComponentsOf(rs), dependencies |-> [present |-> FALSE, list |-> <<>>]] :
     rs \in RefSeqs}

Init ==
  \E doc \in StructDocs \cup ScenarioDocs \cup NoDependenciesDocs : InitOn(doc, StructRnd)

(***************************************************************************)
(* Actions.                                                                *)
(***************************************************************************)
\* first render: the graph useMemo runs on sbomData
BuildGraph ==
  /\ ~mounted
  /\ LET g == ProcessSbom(sbomData, rnd)
     IN /\ nodes' = g.nodes
        /\ links' = g.links
        /\ metrics' = g.metrics
        /\ work' = [op |-> "build"] @@ g.work
  /\ mounted' = TRUE
  /\ UNCHANGED <<docVars, appVars, playVars, filterVars, queryVars, ret>>

\* the ids of the nodes drawn on screen, the ones a menu can be opened on
VisibleIds == {filteredData.nodes[k].id : k \in 1..Len(filteredData.nodes)}

\* the layout effect, lines 237-557: d3.forceLink(links) replaces the ends of
\* the links it is given (filteredData.links) by the Node objects
Resolve(link, shown) ==
  IF \E i \in 1..Len(shown) : shown[i] = link
  THEN [link EXCEPT !.source = NodeEnd(@.id), !.target = NodeEnd(@.id)]
  ELSE link

RenderLayout ==
  /\ mounted
  /\ Len(filteredData.nodes) # 0
  /\ links' = [i \in 1..Len(links) |-> Resolve(links[i], filteredData.links)]
  /\ links' # links
  /\ UNCHANGED <<docVars, appVars, playVars, mounted, nodes, metrics, filterVars, queryVars, ghostVars>>

\* context menu "Show Impact Analysis" on a drawn node
ShowImpactAnalysis(nodeId) ==
  /\ mounted
  /\ nodeId \in VisibleIds
  /\ LET run == ImpactRun(links, nodeId)
     IN /\ selectedNodes' = {nodeId} \cup run.impacted
        /\ work' = [op |-> "impact", nodeId |-> nodeId, calls |-> run.calls,
                     complete |-> run.complete]
  /\ UNCHANGED <<docVars, appVars, playVars, graphVars, filterVars, pathAnalysis, bookmarkedNodes, ret>>

\* a findShortestPaths that also selects the nodes of the paths it found
FindShortestPathsSelecting(fromId, toId) ==
  /\ mounted
  /\ fromId \in VisibleIds /\ toId \in VisibleIds
  /\ LET run == findShortestPathsRun(links, fromId, toId)
     IN /\ ret' = [fn |-> "findShortestPaths", fromId |-> fromId, toId |-> toId,
                   paths |-> run.paths]
        /\ work' = [op |-> "paths", steps |-> run.steps, complete |-> run.complete]
        /\ selectedNodes' = UNION {Range(run.paths[i]) : i \in 1..Len(run.paths)}
  /\ UNCHANGED <<docVars, appVars, playVars, graphVars, filterVars, pathAnalysis, bookmarkedNodes>>

\* a direct call findShortestPaths(fromId, toId) on two drawn nodes
FindShortestPathsCall(fromId, toId) ==
  /\ mounted
  /\ fromId \in VisibleIds /\ toId \in VisibleIds
  /\ LET run == findShortestPathsRun(links, fromId, toId)
     IN /\ ret' = [fn |-> "findShortestPaths", fromId |-> fromId, toId |-> toId,
                   paths |-> run.paths]
        /\ work' = [op |-> "paths", steps |-> run.steps, complete |-> run.complete]
  /\ UNCHANGED <<docVars, appVars, playVars, graphVars, filterVars, queryVars>>

NodeIds == {nodes[k].id : k \in 1..Len(nodes)}

Next ==
  \/ BuildGraph
  \/ RenderLayout
  \/ \E nodeId \in NodeIds : ShowImpactAnalysis(nodeId)

Spec == Init /\ [][Next]_vars

(***************************************************************************)
(* Direct calls of findShortestPaths on the built graph.                   *)
(***************************************************************************)
NextPaths ==
  \/ BuildGraph
  \/ RenderLayout
  \/ \E fromId \in NodeIds, toId \in NodeIds : FindShortestPathsCall(fromId, toId)

SpecPaths == Init /\ [][NextPaths]_vars

(***************************************************************************)
(* All traversals on one graph: every traversal is run on each built graph. *)
(* The two queries read the links only, which no query changes, so each is  *)
(* run from the freshly built graph.                                        *)
(***************************************************************************)
NextTraversal ==
  \/ BuildGraph
  \/ /\ work.op = "build"
     /\ \E nodeId \in NodeIds : ShowImpactAnalysis(nodeId)
  \/ /\ work.op = "build"
     /\ \E fromId \in NodeIds, toId \in NodeIds : FindShortestPathsCall(fromId, toId)

SpecTraversal == Init /\ [][NextTraversal]_vars

(***************************************************************************)
(* The filter controls, lines 1062-1200, and resetGraph, lines 982-996.    *)
(***************************************************************************)
\* a document with a repeated bom-ref, a repeated target and dangling references
DanglingDup ==
  Doc(ComponentsOf(<<"a", "b", "a">>),
      <<Dep("a", <<"b", "b", "z">>), Dep("z", <<"a">>), Dep("b", <<"a">>)>>)

\* a chain with a shortcut to its end and a dangling reference
DanglingShortcut ==
  Doc(ScenarioComponents(<<"a", "b", "c">>),
      <<Dep("a", <<"b", "c", "z">>), Dep("b", <<"c">>)>>)

FilterDocs ==
  {Diamond, FiveIsolated, DanglingDup, DanglingShortcut, Ring(<<"a", "b", "c">>), Chain(<<"a", "b", "c">>),
   Doc(ScenarioComponents(<<"a", "b">>), <<>>)}

\* streams of Math.random() outcomes: mixed, all at the top, all at the bottom
HighRnd == [vuln |-> <<4>>, pop |-> <<99>>, trust |-> <<0>>, weight10 |-> <<24>>]
LowRnd  == [vuln |-> <<0>>, pop |-> <<0>>, trust |-> <<99>>, weight10 |-> <<5>>]
\* every vulnerability count in turn, popularity and trust the same for all nodes
EqualRnd == [vuln |-> <<0, 1, 2, 3, 4>>, pop |-> <<50>>, trust |-> <<50>>, weight10 |-> <<10>>]
RndChoices == {StructRnd, HighRnd, LowRnd, EqualRnd}

\* the values the controls are set to
SearchTerms == {<<>>, <<"p">>, <<"A">>}
FilterTypes == {"all", "framework", "library", "application"}
Thresholds  == {0, 1, 20}
DepthLimits == {1, 2, 10}

InitFilter == \E doc \in FilterDocs, r \in RndChoices : InitOn(doc, r)

SetSearchTerm(value) ==
  /\ mounted
  /\ searchTerm' = value
  /\ UNCHANGED <<docVars, appVars, playVars, graphVars, filterType, criticalityThreshold, depthLimit,
                 showVulnerabilities, showOrphans, queryVars, ghostVars>>

SetFilterType(value) ==
  /\ mounted
  /\ filterType' = value
  /\ UNCHANGED <<docVars, appVars, playVars, graphVars, searchTerm, criticalityThreshold, depthLimit,
                 showVulnerabilities, showOrphans, queryVars, ghostVars>>

SetCriticalityThreshold(value) ==
  /\ mounted
  /\ criticalityThreshold' = value
  /\ UNCHANGED <<docVars, appVars, playVars, graphVars, searchTerm, filterType, depthLimit,
                 showVulnerabilities, showOrphans, queryVars, ghostVars>>

SetDepthLimit(value) ==
  /\ mounted
  /\ depthLimit' = value
  /\ UNCHANGED <<docVars, appVars, playVars, graphVars, searchTerm, filterType, criticalityThreshold,
                 showVulnerabilities, showOrphans, queryVars, ghostVars>>

SetShowVulnerabilities(checked) ==
  /\ mounted
  /\ showVulnerabilities' = checked
  /\ UNCHANGED <<docVars, appVars, playVars, graphVars, searchTerm, filterType, criticalityThreshold,
                 depthLimit, showOrphans, queryVars, ghostVars>>

resetGraph ==
  /\ mounted
  /\ selectedNodes' = {}
  /\ searchTerm' = <<>>
  /\ filterType' = "all"
  /\ criticalityThreshold' = 0
  /\ depthLimit' = 10
  /\ pathAnalysis' = [from |-> Undefined, to |-> Undefined, paths |-> Undefined]
  /\ UNCHANGED <<docVars, appVars, playVars, graphVars, showVulnerabilities, showOrphans,
                 bookmarkedNodes, ghostVars>>

NextFilter ==
  \/ BuildGraph
  \/ RenderLayout
  \/ \E value \in SearchTerms : SetSearchTerm(value)
  \/ \E value \in FilterTypes : SetFilterType(value)
  \/ \E value \in Thresholds : SetCriticalityThreshold(value)
  \/ \E value \in DepthLimits : SetDepthLimit(value)
  \/ \E checked \in BOOLEAN : SetShowVulnerabilities(checked)
  \/ resetGraph

SpecFilter == InitFilter /\ [][NextFilter]_vars

(***************************************************************************)
(* startPathAnalysis, lines 874-885, from the context menu of a drawn      *)
(* node.  In the second branch the statement after the first               *)
(* setPathAnalysis reads prev, a name bound only inside the two updater    *)
(* arrows: evaluating it throws a ReferenceError, so findShortestPaths is  *)
(* not called and the second setPathAnalysis is not reached; the update    *)
(* queued before the throw is applied.                                     *)
(***************************************************************************)
NoPathAnalysis == [from |-> Undefined, to |-> Undefined, paths |-> Undefined]

startPathAnalysis(nodeId) ==
  /\ mounted
  /\ nodeId \in VisibleIds
  /\ IF ~Truthy(pathAnalysis.from)
     THEN /\ pathAnalysis' = [NoPathAnalysis EXCEPT !.from = nodeId]
          /\ ret' = [fn |-> "startPathAnalysis", nodeId |-> nodeId, threw |-> FALSE]
     ELSE IF ~Truthy(pathAnalysis.to)
     THEN /\ pathAnalysis' = [pathAnalysis EXCEPT !.to = nodeId]
          /\ ret' = [fn |-> "startPathAnalysis", nodeId |-> nodeId, threw |-> TRUE]
     ELSE /\ pathAnalysis' = [NoPathAnalysis EXCEPT !.from = nodeId]
          /\ ret' = [fn |-> "startPathAnalysis", nodeId |-> nodeId, threw |-> FALSE]
  /\ UNCHANGED <<docVars, appVars, playVars, graphVars, filterVars, selectedNodes, bookmarkedNodes, work>>

NextPathAnalysis ==
  \/ BuildGraph
  \/ \E nodeId \in NodeIds : startPathAnalysis(nodeId)
  \/ resetGraph

SpecPathAnalysis == InitFilter /\ [][NextPathAnalysis]_vars

(***************************************************************************)
(* The App component, src/src/App.tsx.  A file is chosen with the file     *)
(* input (lines 77 and 132); handleFileUpload starts a FileReader whose    *)
(* onload callback runs later, and the reads in flight complete in any     *)
(* order.                                                                  *)
(***************************************************************************)
MaxUploads == 2   \* files chosen in one run

\* the text of the files that can be chosen: two documents, the JSON text
\* null, and a text that is not JSON
FirstDoc  == Doc(ScenarioComponents(<<"a", "b">>), <<Dep("a", <<"b">>)>>)
SecondDoc == Doc(ScenarioComponents(<<"c", "b">>), <<>>)

FileNames == {"first.json", "second.json", "null.json", "broken.json"}

FileText(file) ==
  CASE file = "first.json"  -> [json |-> TRUE, value |-> Some(FirstDoc)]
    [] file = "second.json" -> [json |-> TRUE, value |-> Some(SecondDoc)]
    [] file = "null.json"   -> [json |-> TRUE, value |-> Null]
    [] OTHER                -> [json |-> FALSE, value |-> Null]

\* JSON.parse(text), line 26: the value, or a SyntaxError
JSONParse(text) ==
  IF text.json THEN [threw |-> FALSE, value |-> text.value]
  ELSE [threw |-> TRUE, value |-> Null]

\* handleFileUpload, lines 20-23 and 34: a reader is created for the chosen
\* file and the read is started; chosen records whether another read was
\* still in flight
handleFileUpload(file) ==
  /\ Len(app.chosen) < MaxUploads
  /\ app' = [app EXCEPT
               !.chosen = Append(@, [file |-> file, overlapped |-> app.reads # {}]),
               !.reads  = @ \cup {Len(app.chosen) + 1}]
  /\ UNCHANGED <<docVars, playVars, graphVars, filterVars, queryVars, ghostVars>>

\* an onload that leaves the overview tab selection to the end of the read,
\* whether or not the text parsed
onloadAlwaysOverview(read) ==
  /\ read \in app.reads
  /\ LET parsed == JSONParse(FileText(app.chosen[read].file))
         done   == [app EXCEPT !.reads = @ \ {read}, !.completed = Append(@, read),
                               !.activeTab = "overview"]
     IN app' = IF parsed.threw
               THEN [done EXCEPT !.alerts = @ + 1]
               ELSE [done EXCEPT !.sbomData = parsed.value]
  /\ UNCHANGED <<docVars, playVars, graphVars, filterVars, queryVars, ghostVars>>

\* reader.onload, lines 24-33
onload(read) ==
  /\ read \in app.reads
  /\ LET parsed == JSONParse(FileText(app.chosen[read].file))
         done   == [app EXCEPT !.reads = @ \ {read}, !.completed = Append(@, read)]
     IN app' = IF parsed.threw
               THEN [done EXCEPT !.alerts = @ + 1]
               ELSE [done EXCEPT !.sbomData = parsed.value, !.activeTab = "overview"]
  /\ UNCHANGED <<docVars, playVars, graphVars, filterVars, queryVars, ghostVars>>

\* the tabs are drawn once a document is loaded (line 64)
Tabs == {"overview", "components", "dependencies", "security", "licenses"}

setActiveTab(tab) ==
  /\ app.sbomData # Null
  /\ app' = [app EXCEPT !.activeTab = tab]
  /\ UNCHANGED <<docVars, playVars, graphVars, filterVars, queryVars, ghostVars>>

\* filteredComponents, lines 38-50 (the generated components have no version
\* and no description, whose tests are then falsy)
filteredComponents ==
  IF app.sbomData = Null THEN <<>>
  ELSE SelectSeq(app.sbomData[1].components,
         LAMBDA component :
           /\ includes(toLowerCase(component.name), toLowerCase(app.searchTerm))
           /\ (app.filterType = "all" \/ component.type = app.filterType))

ComponentsTabShown == app.sbomData # Null /\ app.activeTab = "components"

\* SearchAndFilter of the components tab, lines 264-269
onSearchChange(value) ==
  /\ ComponentsTabShown
  /\ app' = [app EXCEPT !.searchTerm = value]
  /\ UNCHANGED <<docVars, playVars, graphVars, filterVars, queryVars, ghostVars>>

onFilterChange(value) ==
  /\ ComponentsTabShown
  /\ app' = [app EXCEPT !.filterType = value]
  /\ UNCHANGED <<docVars, playVars, graphVars, filterVars, queryVars, ghostVars>>

\* a click on a row of ComponentTree, lines 272-276
onSelectComponent(component) ==
  /\ ComponentsTabShown
  /\ component \in Range(filteredComponents)
  /\ app' = [app EXCEPT !.selectedComponent = Some(component)]
  /\ UNCHANGED <<docVars, playVars, graphVars, filterVars, queryVars, ghostVars>>

AllComponents == Range(FirstDoc.components) \cup Range(SecondDoc.components)

InitApp == InitOn(FirstDoc, StructRnd)

NextApp ==
  \/ \E file \in FileNames : handleFileUpload(file)
  \/ \E read \in 1..MaxUploads : onload(read)
  \/ \E tab \in Tabs : setActiveTab(tab)
  \/ \E value \in SearchTerms : onSearchChange(value)
  \/ \E value \in FilterTypes : onFilterChange(value)
  \/ \E component \in AllComponents : onSelectComponent(component)

SpecApp == InitApp /\ [][NextApp]_vars

(***************************************************************************)
(* Timeline playback: the animation effect, lines 559-574, and the         *)
(* timeline controls, lines 1213-1248.  The timeline holds one event per   *)
(* component of the document (lines 127-132).                              *)
(***************************************************************************)
MaxSlides == 2   \* times the slider is moved in one run

TimelineLength == Len(sbomData.components)

\* what the playback steps record: how often the slider was moved and how
\* many ticks fired
Playback == IF work.op = "playback" THEN work ELSE [op |-> "playback", slides |-> 0, ticks |-> 0]

\* the play / pause button, line 1220
togglePlay ==
  /\ mounted
  /\ isPlaying' = ~isPlaying
  /\ work' = Playback
  /\ UNCHANGED <<docVars, appVars, currentTime, graphVars, filterVars, queryVars, ret>>

\* a tick that holds the last event and leaves isPlaying alone
tickWithoutStop ==
  /\ mounted
  /\ isPlaying
  /\ currentTime' = IF currentTime >= TimelineLength - 1 THEN currentTime ELSE currentTime + 1
  /\ work' = [Playback EXCEPT !.ticks = Min(@ + 1, TimelineLength + 1)]
  /\ UNCHANGED <<docVars, appVars, isPlaying, graphVars, filterVars, queryVars, ret>>

\* one firing of the interval while isPlaying, lines 563-570
tick ==
  /\ mounted
  /\ isPlaying
  /\ IF currentTime >= TimelineLength - 1
     THEN isPlaying' = FALSE /\ currentTime' = currentTime
     ELSE isPlaying' = isPlaying /\ currentTime' = currentTime + 1
  /\ work' = [Playback EXCEPT !.ticks = Min(@ + 1, TimelineLength + 1)]
  /\ UNCHANGED <<docVars, appVars, graphVars, filterVars, queryVars, ret>>

\* the range input, lines 1232-1239: any value from 0 to timeline.length - 1
slideTo(value) ==
  /\ mounted
  /\ value \in 0..(TimelineLength - 1)
  /\ Playback.slides < MaxSlides
  /\ currentTime' = value
  /\ work' = [Playback EXCEPT !.slides = @ + 1]
  /\ UNCHANGED <<docVars, appVars, isPlaying, graphVars, filterVars, queryVars, ret>>

PlaybackDocs ==
  ScenarioDocs \cup {Doc(<<>>, <<>>), Doc(ScenarioComponents(<<"a">>), <<>>), DanglingDup}

InitPlayback == \E doc \in PlaybackDocs : InitOn(doc, StructRnd)

NextPlayback ==
  \/ BuildGraph
  \/ togglePlay
  \/ tick
  \/ \E value \in 0..(TimelineLength - 1) : slideTo(value)

\* setInterval keeps firing while the effect is active
SpecPlayback == InitPlayback /\ [][NextPlayback]_vars /\ WF_vars(tick)

LinkPairs == PairsOf(links)

DocRefs == [i \in 1..Len(sbomData.components) |-> sbomData.components[i].ref]
DocDeps == DependenciesOf(sbomData)

(***************************************************************************)
(* C1.  circularDeps is 0 exactly when the directed graph of the built     *)
(* links has no directed cycle (a self-loop is a cycle).                   *)
(***************************************************************************)
C1_CircularDepsZeroIffAcyclic ==
  mounted => ((metrics.circularDeps = 0) <=> ~HasDirectedCycle(LinkPairs))

\* the three-node cycle a -> b -> c -> a has been built and is counted
C1_Witness ==
  /\ mounted
  /\ NodeIds = {"a", "b", "c"}
  /\ LinkPairs = {<<"a", "b">>, <<"b", "c">>, <<"c", "a">>}
  /\ metrics.circularDeps >= 1

(***************************************************************************)
(* C2.  As claimed: after the build every node carries a cluster id and    *)
(* the union of the clusters detectCommunities returns is the node set.    *)
(***************************************************************************)
C2_ClusteringIsPartition ==
  mounted =>
    /\ \A k \in 1..Len(nodes) : nodes[k].cluster # NoCluster
    /\ UNION {Range(c) : c \in Range(detectCommunities(nodes, links))} = NodeIds

(***************************************************************************)
(* C3.  The selection showImpactAnalysis(n) leaves is n together with      *)
(* every node from which n is reachable along directed links.              *)
(***************************************************************************)
C3_ImpactIsAncestors ==
  work.op = "impact" =>
    selectedNodes = {work.nodeId} \cup Ancestors(LinkPairs, work.nodeId)

\* the diamond a -> b, a -> c, b -> d, c -> d, impact of d
C3_Witness ==
  /\ work.op = "impact" /\ work.nodeId = "d"
  /\ LinkPairs = {<<"a", "b">>, <<"a", "c">>, <<"b", "d">>, <<"c", "d">>}
  /\ selectedNodes = {"d", "b", "c", "a"}

(***************************************************************************)
(* C4.  In the built graph the dependencyCounts add up to the number of    *)
(* links.                                                                  *)
(***************************************************************************)
C4_DependencyCountSum ==
  mounted => SumSeq([k \in 1..Len(nodes) |-> nodes[k].dependencyCount]) = Len(links)

\* built from a document with a repeated bom-ref, a repeated target and a
\* dangling reference
C4_Witness ==
  /\ mounted
  /\ Len(links) >= 2
  /\ \E i, j \in 1..Len(DocRefs) : i # j /\ DocRefs[i] = DocRefs[j]
  /\ \E d \in 1..Len(DocDeps) : \E i, j \in 1..Len(DocDeps[d].dependsOn) :
       /\ i # j
       /\ DocDeps[d].dependsOn[i] = DocDeps[d].dependsOn[j]
       /\ DocDeps[d].ref \in NodeIds /\ DocDeps[d].dependsOn[i] \in NodeIds
  /\ \E d \in 1..Len(DocDeps) : \E i \in 1..Len(DocDeps[d].dependsOn) :
       DocDeps[d].ref \in NodeIds /\ DocDeps[d].dependsOn[i] \notin NodeIds

(***************************************************************************)
(* C7.  As claimed: with at most one node, networkDensity,                 *)
(* avgDependencies, centralityScore and modularityScore are all 0.         *)
(***************************************************************************)
C7_SmallGraphMetricsZero ==
  (mounted /\ Len(nodes) <= 1) =>
    /\ metrics.networkDensity = Zero
    /\ metrics.avgDependencies = Zero
    /\ metrics.centralityScore = Zero
    /\ metrics.modularityScore = Zero

(***************************************************************************)
(* C8.  Every traversal completes on every graph, cyclic or not: the       *)
(* link pass of the build, detectCommunities, detectCircularDependencies,  *)
(* findShortestPaths and the impact search each finish within a number of  *)
(* steps bounded by the size of the graph.                                 *)
(***************************************************************************)
C8_TraversalsTerminate ==
  /\ work.op = "build" =>
       /\ work.complete
       /\ work.depth = Len(links)
       /\ work.communities <= Len(nodes) * (1 + Len(links))
       /\ work.cycles <= Len(nodes) + Len(links)
  /\ work.op = "impact" => (work.complete /\ work.calls <= Len(nodes) + 1)
  /\ work.op = "paths" => (work.complete /\ work.steps <= Len(nodes))

\* the impact search has run from a node that lies on a cycle of a graph
\* that also holds a self-loop
C8_Witness ==
  /\ mounted
  /\ \E e \in LinkPairs : e[1] = e[2]
  /\ \E e \in LinkPairs : e[1] # e[2] /\ e[1] \in Descendants(LinkPairs, e[2])
  /\ work.op = "impact" /\ work.complete
  /\ work.nodeId \in Descendants(LinkPairs \ {<<work.nodeId, work.nodeId>>}, work.nodeId)
  /\ metrics.circularDeps >= 1

(***************************************************************************)
(* C5.  No dangling link: every link of the built graph and of the         *)
(* filtered view joins two nodes of the same node list, and the build      *)
(* keeps exactly the references whose two ends are components.             *)
(***************************************************************************)
VisibleOutDegree(id) ==
  Cardinality({i \in 1..Len(filteredData.links) : filteredData.links[i].source.id = id})
BuiltOutDegree(id) ==
  Cardinality({i \in 1..Len(links) : links[i].source.id = id})

\* the references of the document whose ref and target are both components
KeptReferences ==
  SumSeq([d \in 1..Len(DocDeps) |->
            IF DocDeps[d].ref \in Range(DocRefs)
            THEN Cardinality({i \in 1..Len(DocDeps[d].dependsOn) :
                                DocDeps[d].dependsOn[i] \in Range(DocRefs)})
            ELSE 0])
AllReferences == SumSeq([d \in 1..Len(DocDeps) |-> Len(DocDeps[d].dependsOn)])

C5_NoDanglingLinks ==
  mounted =>
    /\ \A i \in 1..Len(links) :
         links[i].source.id \in NodeIds /\ links[i].target.id \in NodeIds
    /\ \A i \in 1..Len(filteredData.links) :
         /\ filteredData.links[i].source.id \in VisibleIds
         /\ filteredData.links[i].target.id \in VisibleIds
    /\ Len(links) = KeptReferences

\* a document with dangling references, shown under a filter that hides an end
\* of some links and keeps others
C5_Witness ==
  /\ mounted
  /\ KeptReferences < AllReferences
  /\ 0 < Len(filteredData.links)
  /\ Len(filteredData.links) < Len(links)

C9_PathsWellFormed ==
  ret.fn = "findShortestPaths" =>
    /\ Len(ret.paths) <= 3
    /\ \A i \in 1..Len(ret.paths) :
         LET path == ret.paths[i]
         IN /\ Len(path) >= 1 /\ Len(path) <= 6
            /\ path[1] = ret.fromId
            /\ path[Len(path)] = ret.toId
            /\ \A j \in 1..(Len(path) - 1) : <<path[j], path[j + 1]>> \in LinkPairs
    /\ (ret.toId \notin ({ret.fromId} \cup Descendants(LinkPairs, ret.fromId))
          => ret.paths = <<>>)

\* a returned path of five ids between two distinct nodes
C9_Witness ==
  /\ ret.fn = "findShortestPaths"
  /\ \E i \in 1..Len(ret.paths) : Len(ret.paths[i]) = 5

UndirectedPairs == LinkPairs \cup {<<e[2], e[1]>> : e \in LinkPairs}
ComponentOf(n) == Closure(UndirectedPairs, {n})
ConnectedComponents == {ComponentOf(n) : n \in NodeIds}

C11_ClusterCountIsComponents ==
  mounted => metrics.clusterCount = Cardinality(ConnectedComponents)

(***************************************************************************)
(* C12.  The impact set is monotone in the link list: the selection        *)
(* showImpactAnalysis(n) computes over the links contains the impact set   *)
(* of n over every sub-list of the links.                                  *)
(***************************************************************************)
RECURSIVE SubList(_, _, _)
SubList(ls, S, i) ==
  IF i > Len(ls) THEN <<>>
  ELSE (IF i \in S THEN <<ls[i]>> ELSE <<>>) \o SubList(ls, S, i + 1)

C12_ImpactMonotone ==
  work.op = "impact" =>
    \A S \in SUBSET (1..Len(links)) :
      ImpactSelection(SubList(links, S, 1), work.nodeId) \subseteq selectedNodes

\* an impact set that strictly grows with the links: some sub-list of the
\* links gives a smaller impact set with a dependent in it
C12_Witness ==
  /\ work.op = "impact"
  /\ \E S \in SUBSET (1..Len(links)) :
       LET small == ImpactSelection(SubList(links, S, 1), work.nodeId)
       IN Cardinality(small) >= 2 /\ small # selectedNodes

(***************************************************************************)
(* C13.  As claimed: with more than one node, networkDensity is            *)
(* |E| / (|V| * (|V| - 1)), and is at most 1 when no link is repeated and  *)
(* no link is a self-loop.                                                 *)
(***************************************************************************)
SimpleLinks ==
  /\ Cardinality(LinkPairs) = Len(links)
  /\ \A e \in LinkPairs : e[1] # e[2]

C13_DensityIsDirected ==
  (mounted /\ Len(nodes) > 1) =>
    /\ metrics.networkDensity = Frac(Len(links), Len(nodes) * (Len(nodes) - 1))
    /\ SimpleLinks => metrics.networkDensity.n <= metrics.networkDensity.d

(***************************************************************************)
(* C14.  Of two nodes with the same dependencyCount, popularity and trust  *)
(* score, the one at the higher risk level has the strictly higher         *)
(* criticality score (high above medium above low).                        *)
(***************************************************************************)
RiskRank(risk) == IF risk = "high" THEN 3 ELSE IF risk = "medium" THEN 2 ELSE 1

SameButRisk(x, y) ==
  /\ x.dependencyCount = y.dependencyCount
  /\ x.popularity = y.popularity
  /\ x.trustScore = y.trustScore

C14_RiskRanksCriticality ==
  mounted =>
    \A i, j \in 1..Len(nodes) :
      (SameButRisk(nodes[i], nodes[j]) /\ RiskRank(nodes[i].risk) > RiskRank(nodes[j].risk))
        => nodes[i].criticality10 > nodes[j].criticality10

\* three nodes that differ in risk only, one at each level
C14_Witness ==
  /\ mounted
  /\ \E i, j, k \in 1..Len(nodes) :
       /\ SameButRisk(nodes[i], nodes[j]) /\ SameButRisk(nodes[j], nodes[k])
       /\ nodes[i].risk = "high" /\ nodes[j].risk = "medium" /\ nodes[k].risk = "low"

(***************************************************************************)
(* C15.  The queries do not change the graph snapshot: a call of           *)
(* findShortestPaths changes no component state, and showImpactAnalysis    *)
(* changes the selected-node set only; nodes, links, metrics, bookmarks,   *)
(* filter parameters and path-analysis state are as before the call.       *)
(***************************************************************************)
C15_QueriesKeepSnapshot ==
  [][ /\ (\E nodeId \in NodeIds : ShowImpactAnalysis(nodeId))
          => UNCHANGED <<sbomData, nodes, links, metrics, bookmarkedNodes, filterVars,
                         pathAnalysis>>
      /\ (\E fromId \in NodeIds, toId \in NodeIds : FindShortestPathsCall(fromId, toId))
          => UNCHANGED <<sbomData, nodes, links, metrics, bookmarkedNodes, filterVars,
                         pathAnalysis, selectedNodes>> ]_vars

\* an impact query has run on a graph with links and selected three nodes or more
C15_Witness ==
  /\ work.op = "impact"
  /\ Len(links) >= 2
  /\ Cardinality(selectedNodes) >= 3
  /\ pathAnalysis.paths = Undefined

(***************************************************************************)
(* C16.  orphanNodes is the number of nodes with no outgoing and no        *)
(* incoming link in the built graph; each of them has dependencyCount 0,   *)
(* and a node with a link is not counted.                                  *)
(***************************************************************************)
Unlinked == {n \in NodeIds : \A e \in LinkPairs : e[1] # n /\ e[2] # n}

C16_OrphansAreUnlinked ==
  mounted =>
    /\ metrics.orphanNodes = Cardinality(Unlinked)
    /\ \A k \in 1..Len(nodes) : nodes[k].id \in Unlinked => nodes[k].dependencyCount = 0

\* a graph with an orphan next to a node that only has incoming links
C16_Witness ==
  /\ mounted
  /\ metrics.orphanNodes = 1
  /\ \E n \in NodeIds \ Unlinked :
       /\ \A e \in LinkPairs : e[1] # n
       /\ \E e \in LinkPairs : e[2] = n /\ e[1] # n

(***************************************************************************)
(* C17.  A document with components and no dependencies field is built     *)
(* into a graph with one node per distinct bom-ref, no link,               *)
(* dependencyCount 0 and depth 0 at every node, and circularDeps 0.        *)
(***************************************************************************)
C17_NoDependenciesField ==
  (mounted /\ ~sbomData.dependencies.present) =>
    /\ NodeIds = Range(DocRefs)
    /\ Len(nodes) = Cardinality(Range(DocRefs))
    /\ links = <<>>
    /\ \A k \in 1..Len(nodes) : nodes[k].dependencyCount = 0 /\ nodes[k].depth = 0
    /\ metrics.circularDeps = 0
    /\ metrics.totalEdges = 0

\* such a document with three components, two of them with the same bom-ref
C17_Witness ==
  /\ mounted
  /\ ~sbomData.dependencies.present
  /\ Len(DocRefs) = 3
  /\ Len(nodes) = 2

(***************************************************************************)
(* C18.  As claimed: modularityScore is 0 without links and otherwise      *)
(* 100 * clamp01 of the sum, over the clusters the clustering assigned, of *)
(* internalEdges / |E| - (clusterSize * (clusterSize - 1) / (2 * |E|))^2,  *)
(* clusterSize counting the nodes the clustering put in the cluster; it    *)
(* lies in [0, 100].  Stated on the freshly built graph, with the count of *)
(* internal edges the build computes.                                      *)
(***************************************************************************)
AssignedClusters == {nodes[k].cluster : k \in 1..Len(nodes)} \ {NoCluster}
AssignedSize(c) == Cardinality({k \in 1..Len(nodes) : nodes[k].cluster = c})

\* the sum over the assigned clusters, over the denominator 4 * |E|^2
AssignedNumerator ==
  LET keySeq == CHOOSE q \in [1..Cardinality(AssignedClusters) -> AssignedClusters] :
                  Range(q) = AssignedClusters
  IN SumSeq([j \in 1..Len(keySeq) |->
               (4 * Len(links) * InternalEdges(nodes, links))
                 - ((AssignedSize(keySeq[j]) * (AssignedSize(keySeq[j]) - 1))
                      * (AssignedSize(keySeq[j]) * (AssignedSize(keySeq[j]) - 1)))])

AssignedModularity ==
  LET den == 4 * Len(links) * Len(links)
  IN IF Len(links) = 0 THEN Zero
     ELSE IF AssignedNumerator <= 0 THEN Zero
     ELSE IF AssignedNumerator >= den THEN Frac(100, 1)
     ELSE Frac(100 * AssignedNumerator, den)

C18_ModularityOverAssignedClusters ==
  work.op = "build" =>
    /\ metrics.modularityScore = AssignedModularity
    /\ IsFinite(metrics.modularityScore)
    /\ metrics.modularityScore.n <= 100 * metrics.modularityScore.d

(***************************************************************************)
(* C19.  As claimed: in an acyclic built graph a node without incoming     *)
(* link has depth 0 and every other node's depth is the number of links    *)
(* on the longest directed path that ends at it, so that                   *)
(* depth(target) >= depth(source) + 1 on every link.                       *)
(***************************************************************************)
RECURSIVE LongestPathTo(_, _)
LongestPathTo(E, n) ==
  LET preds == {e[1] : e \in {x \in E : x[2] = n}}
  IN IF preds = {} THEN 0
     ELSE 1 + (CHOOSE m \in {LongestPathTo(E, p) : p \in preds} :
                 \A o \in {LongestPathTo(E, p) : p \in preds} : o <= m)

DepthOf(id) == nodes[NodeIndex(nodes, id)].depth

C19_DepthIsLongestPath ==
  (mounted /\ ~HasDirectedCycle(LinkPairs)) =>
    /\ \A k \in 1..Len(nodes) : nodes[k].depth = LongestPathTo(LinkPairs, nodes[k].id)
    /\ \A e \in LinkPairs : DepthOf(e[2]) >= DepthOf(e[1]) + 1

(***************************************************************************)
(* C20.  As claimed: a node that has incoming links and no root (a node    *)
(* without incoming link) among its ancestors, such as every node of a     *)
(* directed ring or a node whose only link is a self-loop, has depth 0     *)
(* after the build.                                                        *)
(***************************************************************************)
Roots == {n \in NodeIds : \A e \in LinkPairs : e[2] # n}
HasNoRootAncestor(n) == (({n} \cup Ancestors(LinkPairs, n)) \cap Roots) = {}

C20_CycleNodesKeepDepthZero ==
  mounted =>
    \A k \in 1..Len(nodes) : HasNoRootAncestor(nodes[k].id) => nodes[k].depth = 0

(***************************************************************************)
(* C21.  As claimed: circularDeps is the number of back edges of a         *)
(* depth-first traversal of the adjacency map in which every link is       *)
(* examined: a link counts once when its target is its source or an        *)
(* ancestor of its source on the active path, and never otherwise.         *)
(***************************************************************************)
\* st = [visited, back]; path is the set of nodes on the active path above node
RECURSIVE BackEdgeDfs(_, _, _, _)
RECURSIVE BackEdgeNeighbors(_, _, _, _, _)
BackEdgeDfs(graph, node, path, st) ==
  BackEdgeNeighbors(graph, NeighborsOf(graph, node), 1, path \cup {node},
                    [st EXCEPT !.visited = @ \cup {node}])

BackEdgeNeighbors(graph, neighbors, i, path, st) ==
  IF i > Len(neighbors) THEN st
  ELSE BackEdgeNeighbors(graph, neighbors, i + 1, path,
         IF neighbors[i] \in path THEN [st EXCEPT !.back = @ + 1]
         ELSE IF neighbors[i] \in st.visited THEN st
         ELSE BackEdgeDfs(graph, neighbors[i], path, st))

RECURSIVE BackEdgeLoop(_, _, _)
BackEdgeLoop(graph, k, st) ==
  IF k > Len(graph) THEN st
  ELSE IF graph[k].node \in st.visited THEN BackEdgeLoop(graph, k + 1, st)
       ELSE BackEdgeLoop(graph, k + 1, BackEdgeDfs(graph, graph[k].node, {}, st))

BackEdges == BackEdgeLoop(Adjacency(links), 1, [visited |-> {}, back |-> 0]).back

C21_CircularDepsIsBackEdges ==
  mounted => metrics.circularDeps = BackEdges

(***************************************************************************)
(* C22.  As claimed: with at least one node, centralityScore is the mean   *)
(* over the nodes of the summed weights of the links incident to the node  *)
(* (incoming or outgoing), hence positive when there is a link.            *)
(***************************************************************************)
IncidentWeight10(id) ==
  SumSeq([i \in 1..Len(links) |->
            IF links[i].source.id = id \/ links[i].target.id = id
            THEN links[i].weight10 ELSE 0])

C22_CentralityIsMeanIncidentWeight ==
  (mounted /\ Len(nodes) >= 1) =>
    /\ metrics.centralityScore =
         Frac(SumSeq([k \in 1..Len(nodes) |-> IncidentWeight10(nodes[k].id)]),
              10 * Len(nodes))
    /\ Len(links) >= 1 => metrics.centralityScore.n > 0

(***************************************************************************)
(* C23.  As claimed: when toId is reachable from fromId along at most 5    *)
(* links, findShortestPaths returns a non-empty list whose first path has  *)
(* the least possible number of links.                                     *)
(***************************************************************************)
\* the least number of links from a node of S to t, d links having been
\* followed to reach S; -1 when t cannot be reached
RECURSIVE LinksToReach(_, _, _, _)
LinksToReach(E, S, t, d) ==
  IF t \in S THEN d
  ELSE LET T == S \cup {e[2] : e \in {x \in E : x[1] \in S}}
       IN IF T = S THEN 0 - 1 ELSE LinksToReach(E, T, t, d + 1)

Distance(fromId, toId) == LinksToReach(LinkPairs, {fromId}, toId, 0)

FirstPathIsShortest ==
  /\ ret.paths # <<>>
  /\ Len(ret.paths[1]) - 1 = Distance(ret.fromId, ret.toId)

C23_ShortestWithinFiveLinks ==
  (ret.fn = "findShortestPaths" /\ Distance(ret.fromId, ret.toId) \in 0..5)
    => FirstPathIsShortest

\* C23 as amended: when toId is reachable from fromId along at most 4 links
\* (a path of at most 5 node ids), findShortestPaths returns a non-empty list
\* whose first path has the least possible number of links.
C23_ShortestWithinFourLinks ==
  (ret.fn = "findShortestPaths" /\ Distance(ret.fromId, ret.toId) \in 0..4)
    => FirstPathIsShortest

\* the call from the head of the chain with a shortcut to its end: two links
\* through the shortcut, five along the chain
C23_Witness ==
  /\ ret.fn = "findShortestPaths"
  /\ {<<"a", "b">>, <<"a", "e">>, <<"d", "e">>, <<"e", "f">>} \subseteq LinkPairs
  /\ ret.fromId = "a" /\ ret.toId = "f"
  /\ ret.paths = <<(<<"a", "e", "f">>)>>

(***************************************************************************)
(* C24.  As claimed: startPathAnalysis(a) on an empty path-analysis state  *)
(* stores from = a; the next call startPathAnalysis(b) leaves from = a,    *)
(* to = b and paths = findShortestPaths(a, b); a call on a state with from *)
(* and to restarts with from alone.                                        *)
(***************************************************************************)
PathAnalysisStep(nodeId) ==
  IF ~Truthy(pathAnalysis.from) \/ Truthy(pathAnalysis.to)
  THEN pathAnalysis' = [NoPathAnalysis EXCEPT !.from = nodeId]
  ELSE /\ pathAnalysis'.from = pathAnalysis.from
       /\ pathAnalysis'.to = nodeId
       /\ pathAnalysis'.paths # Undefined
       /\ pathAnalysis'.paths = findShortestPaths(links, pathAnalysis.from, nodeId)

C24_TwoStepProtocol ==
  [][\A nodeId \in NodeIds : startPathAnalysis(nodeId) => PathAnalysisStep(nodeId)]_vars

(***************************************************************************)
(* C25.  As claimed: when a second file is chosen while the read of the    *)
(* first is in flight, then once both onload callbacks have run the        *)
(* loaded document is the content of the file chosen last, in whichever    *)
(* order the callbacks ran.  Stated for two files that both parse.         *)
(***************************************************************************)
BothReadsDone ==
  /\ Len(app.chosen) = 2
  /\ app.chosen[2].overlapped
  /\ app.reads = {}
  /\ \A i \in 1..2 : ~JSONParse(FileText(app.chosen[i].file)).threw

C25_LastChosenFileWins ==
  BothReadsDone => app.sbomData = JSONParse(FileText(app.chosen[2].file)).value

(***************************************************************************)
(* C26.  As claimed: selectedComponent is null or one of the components    *)
(* of the document that is loaded.                                         *)
(***************************************************************************)
C26_SelectedComponentIsLoaded ==
  app.selectedComponent = Null
    \/ /\ app.sbomData # Null
       /\ app.selectedComponent[1] \in Range(app.sbomData[1].components)

(***************************************************************************)
(* C27.  findShortestPaths returns at most one path, also when several     *)
(* directed paths lead from fromId to toId within the bound on the length. *)
(***************************************************************************)
C27_AtMostOnePath ==
  ret.fn = "findShortestPaths" => Len(ret.paths) <= 1

\* the diamond: two paths of two links lead from a to d, one is returned
C27_Witness ==
  /\ ret.fn = "findShortestPaths"
  /\ LinkPairs = {<<"a", "b">>, <<"a", "c">>, <<"b", "d">>, <<"c", "d">>}
  /\ ret.fromId = "a" /\ ret.toId = "d"
  /\ Len(ret.paths) = 1

(***************************************************************************)
(* C28.  Timeline playback stops: while ticks keep firing, a tick either   *)
(* moves currentTime up by exactly 1, to at most timeline.length - 1, or,  *)
(* when currentTime >= timeline.length - 1 already (the empty timeline     *)
(* included), leaves it and sets isPlaying to false; and isPlaying, once   *)
(* true, eventually is false.                                              *)
(***************************************************************************)
TickEffect ==
  \/ /\ currentTime < TimelineLength - 1
     /\ currentTime' = currentTime + 1
     /\ currentTime' <= TimelineLength - 1
     /\ isPlaying'
  \/ /\ currentTime >= TimelineLength - 1
     /\ currentTime' = currentTime
     /\ ~isPlaying'

InitialFilterState ==
  [searchTerm |-> <<>>, filterType |-> "all", criticalityThreshold |-> 0,
   depthLimit |-> 10, showVulnerabilities |-> TRUE, showOrphans |-> TRUE]

ResetEffect ==
  LET after == [searchTerm |-> searchTerm', filterType |-> filterType',
                criticalityThreshold |-> criticalityThreshold',
                depthLimit |-> depthLimit',
                showVulnerabilities |-> showVulnerabilities',
                showOrphans |-> showOrphans']
  IN /\ after = InitialFilterState
     /\ filteredDataOf(nodes', links', after).nodes
          = filteredDataOf(nodes', links', InitialFilterState).nodes
     /\ bookmarkedNodes' = bookmarkedNodes

C29_ResetRestoresView ==
  [][resetGraph => ResetEffect]_vars

(***************************************************************************)
(* C30.  The end of a read whose text is not valid JSON reports one error  *)
(* and leaves sbomData, activeTab, selectedComponent, searchTerm and       *)
(* filterType as they were; the end of a read whose text parses makes      *)
(* sbomData the parsed value and activeTab 'overview'.                     *)
(***************************************************************************)
OnloadEffect(read) ==
  LET text == FileText(app.chosen[read].file)
  IN IF text.json
     THEN /\ app'.sbomData = text.value
          /\ app'.activeTab = "overview"
     ELSE /\ app'.alerts = app.alerts + 1
          /\ app'.sbomData = app.sbomData
          /\ app'.activeTab = app.activeTab
          /\ app'.selectedComponent = app.selectedComponent
          /\ app'.searchTerm = app.searchTerm
          /\ app'.filterType = app.filterType

C30_BrokenUploadKeepsState ==
  [][\A read \in app.reads : onload(read) => OnloadEffect(read)]_vars

\* the text of broken.json was the last one read, over a loaded document shown
\* on the components tab with a component selected
C30_Witness ==
  /\ app.completed # <<>>
  /\ app.chosen[app.completed[Len(app.completed)]].file = "broken.json"
  /\ app.alerts = 1
  /\ app.sbomData = Some(FirstDoc)
  /\ app.activeTab = "components"
  /\ app.selectedComponent # Null

====
